---- MODULE Spec2Model ----
(***************************************************************************)
(* State-machine model of the Dropdown controller of src/src/Dropdown.js:  *)
(* the React component instance (props, state, instance fields), the DOM   *)
(* it reads (registered toggle and menu nodes, document.activeElement),    *)
(* the host's onToggle callback and the popper adapter it drives.          *)
(*                                                                         *)
(* One React update is three steps, as React runs them: the render         *)
(* (getDerivedStateFromProps, then render), the commit in which the        *)
(* rendering layer may call the ref callbacks, and componentDidUpdate.     *)
(* pc holds the position in that cycle.                                    *)
(***************************************************************************)
EXTENDS Integers, Sequences, FiniteSets, TLC

\* ---------------------------------------------------------------- bounds
\* The largest number of items a menu node holds.
MaxItems == 3

\* ------------------------------------------------------------ DOM universe
NULL == "null"
UNDEFINED == "undefined"

\* Names of the elements matching itemSelector, in document order.
ItemNames == <<"A", "B", "C", "D", "E", "F">>

\* A menu DOM node: whether it carries role=menu and how many elements
\* under it match itemSelector. Every menu node also holds one text input
\* ("menuInput") that does not match itemSelector.
NoMenu == [present |-> FALSE, role |-> FALSE, n |-> 0]
MenuNodes == [present : {TRUE}, role : BOOLEAN, n : 0..MaxItems]

\* What findDOMNode can hand to setToggleElement: a button element, or a
\* text node (no focus method, no id).
ToggleNodes == {"toggle", "toggleText"}

\* qsa(this.menu, itemSelector): the matching elements in document order.
qsa(m) == SubSeq(ItemNames, 1, m.n)

\* node.contains(el) for a menu node.
Contains(m, el) ==
  m.present /\ (el = "menuInput" \/ \E i \in 1..m.n : ItemNames[i] = el)

\* /input|textarea/i.test(target.tagName)
IsInput(el) == el \in {"menuInput", "outInput"}

\* Whether the node has a focus method (el.focus is truthy).
HasFocus(el) == el # "toggleText" /\ el # NULL

\* el.id of a registered toggle node.
IdOf(el) == IF el = "toggle" THEN "toggle-id" ELSE UNDEFINED

\* Elements of the dropdown that can hold focus and so receive a keydown:
\* the toggle button, a text input outside the menu, and whatever the
\* mounted menu holds.
Targets(m) ==
  {"toggle", "outInput"}
    \cup (IF m.present THEN {"menuInput"} \cup {ItemNames[i] : i \in 1..m.n} ELSE {})

\* Elements the user can move focus to.
Focusable(m) == Targets(m) \cup {"body"}

Keys == {"ArrowUp", "ArrowDown", "Escape", "Tab", " ", "a"}

\* --------------------------------------------------------------- options
None == <<>>
Some(v) == <<v>>
Truthy(o) == o = <<TRUE>>

Max(a, b) == IF a > b THEN a ELSE b
Min(a, b) == IF a < b THEN a ELSE b

\* ------------------------------------------------------------------ props
Drops == {"up", "down", "left", "right", UNDEFINED, "diagonal"}

\* Every configuration a host can supply.
AllProps == [drop : Drops, alignRight : BOOLEAN, show : BOOLEAN, flip : BOOLEAN]

\* One configuration, open or closed: the props of the interaction runs.
SomeProps == { p \in AllProps : p.drop = "up" /\ p.alignRight /\ p.flip }

\* The menu nodes of the interaction runs: every item count with the menu
\* role, and the fullest menu without it.
SomeMenus == { m \in MenuNodes : m.role \/ m.n = MaxItems }

\* The toggle nodes of the interaction runs.
SomeToggles == {"toggle"}

VARIABLES
  props,            \* this.props
  state,            \* this.state
  toggle,           \* this.toggle
  menu,             \* this.menu
  focusInDropdown,  \* this._focusInDropdown
  activeElement,    \* document.activeElement
  pc,               \* "mount", "commit", "idle" or "unmounted"
  prevShow,         \* prevProps.show of the update being committed
  pendingId,        \* the setState updater of setToggleElement is queued
  popper,           \* the popper adapter: the request it owes a callback for, destroyed
  last,             \* what the last handler did (calls out of the controller)
  closeRec          \* focus calls of the lifecycle since the last closing render

vars ==
  <<props, state, toggle, menu, focusInDropdown, activeElement, pc, prevShow,
    pendingId, popper, last, closeRec>>


\* ------------------------------------------------------------ observation
NoEvent == [type |-> "none", key |-> "none", target |-> "none"]
NoNav == [called |-> FALSE, offset |-> 0, result |-> NULL]

\* The record of a handler that made no call out of the controller.
Quiet(op) ==
  [op |-> op, event |-> NoEvent, prevented |-> FALSE,
   toggled |-> <<>>, focused |-> <<>>, threw |-> FALSE, nav |-> NoNav]

NoClose ==
  [phase |-> "none", focusIn |-> FALSE, toggleOk |-> FALSE,
   toggleFocus |-> 0, otherFocus |-> 0]

\* ------------------------------------------------- derived state and render
\* Placement with the alignment dropped from the "up" branch.
PlacementUpIgnoresAlign(drop, alignRight) ==
  LET p0 == IF alignRight THEN "bottom-end" ELSE "bottom-start"
      p1 == IF drop = "up" THEN "top-start" ELSE p0
      p2 == IF drop = "right" THEN "right-start" ELSE p1
      p3 == IF drop = "left" THEN "left-start" ELSE p2
  IN  p3

\* The placement getDerivedStateFromProps computes from drop and alignRight.
Placement(drop, alignRight) ==
  LET p0 == IF alignRight THEN "bottom-end" ELSE "bottom-start"
      p1 == IF drop = "up" THEN (IF alignRight THEN "top-end" ELSE "top-start") ELSE p0
      p2 == IF drop = "right" THEN "right-start" ELSE p1
      p3 == IF drop = "left" THEN "left-start" ELSE p2
  IN  p3

\* this.state as the constructor leaves it: only dropdownContext is set.
ConstructorState ==
  [placement |-> UNDEFINED, lastShow |-> None, popper |-> UNDEFINED,
   dropdownContext |->
     [popper |-> "{}", alignRight |-> None, show |-> None, toggleId |-> UNDEFINED]]

\* getDerivedStateFromProps with show left out of the new context.
getDerivedStateFromPropsKeepsShow(p, prevState) ==
  [prevState EXCEPT
     !.placement = Placement(p.drop, p.alignRight),
     !.lastShow = prevState.dropdownContext.show,
     !.dropdownContext.alignRight = Some(p.alignRight)]

\* Every render derives state, a setState render included (React 16.4 on).
getDerivedStateFromProps(p, prevState) ==
  [prevState EXCEPT
     !.placement = Placement(p.drop, p.alignRight),
     !.lastShow = prevState.dropdownContext.show,
     !.dropdownContext.alignRight = Some(p.alignRight),
     !.dropdownContext.show = Some(p.show)]

\* render reads this.menu.contains with no menu registered: a TypeError.
renderThrows(st, p) == Truthy(st.lastShow) /\ ~p.show /\ ~menu.present

\* render that never takes the focus snapshot.
renderFocusFlagNoSnapshot(st, p) == focusInDropdown

\* render that takes the snapshot against the menu handle as the commit of
\* the closing update leaves it (cleared).
renderFocusFlagAfterRemoval(st, p) ==
  IF Truthy(st.lastShow) /\ ~p.show
    THEN Contains(NoMenu, activeElement)
    ELSE focusInDropdown

\* this._focusInDropdown after render.
renderFocusFlag(st, p) ==
  IF Truthy(st.lastShow) /\ ~p.show
    THEN Contains(menu, activeElement)
    ELSE focusInDropdown

\* render writes the position result into the context it hands down.
renderContext(st) ==
  [st EXCEPT !.dropdownContext.popper =
     IF st.popper = UNDEFINED THEN "{}" ELSE st.popper]

\* ------------------------------------------------------- focus navigation
\* indexOf that answers 0 for an element that is not in the list.
IndexOfAbsentZero(items, current) ==
  IF \E i \in 1..Len(items) : items[i] = current
    THEN (CHOOSE i \in 1..Len(items) : items[i] = current) - 1
    ELSE 0

\* items.indexOf(current), counting from 0; -1 when absent.
IndexOf(items, current) ==
  IF \E i \in 1..Len(items) : items[i] = current
    THEN (CHOOSE i \in 1..Len(items) : items[i] = current) - 1
    ELSE -1

\* getNextFocusedChild with the index clamped to the last item.
getNextFocusedChildClampLast(m, current, offset) ==
  IF ~m.present THEN NULL
  ELSE LET items == qsa(m)
           index0 == IndexOf(items, current) + offset
           index == Max(0, Min(index0, Len(items) - 1))
       IN  IF index < Len(items) THEN items[index + 1] ELSE NULL

getNextFocusedChild(m, current, offset) ==
  IF ~m.present THEN NULL
  ELSE LET items == qsa(m)
           index0 == IndexOf(items, current) + offset
           index == Max(0, Min(index0, Len(items)))
       IN  IF index < Len(items) THEN items[index + 1] ELSE NULL

\* hasMenuRole that is content with any registered menu.
hasMenuRoleAnyMenu(m) == m.present

hasMenuRole(m) == m.present /\ m.role

\* The focus calls of this.focus().
focus == IF toggle # NULL /\ HasFocus(toggle) THEN <<toggle>> ELSE <<>>

\* The focus calls of maybeFocusFirst().
maybeFocusFirst ==
  IF ~hasMenuRole(menu) THEN <<>>
  ELSE LET items == qsa(menu)
       IN  IF Len(items) >= 1 /\ HasFocus(items[1]) THEN <<items[1]>> ELSE <<>>

\* document.activeElement after the given focus calls.
ActiveAfter(calls) == IF calls = <<>> THEN activeElement ELSE calls[Len(calls)]

\* ------------------------------------------------------- popper and toggle
\* updatePosition() without its early return.
updatePositionNoGuard(tg, mn) ==
  [popper EXCEPT
     !.req = Some([element |-> mn, target |-> tg,
                   placement |-> state.placement, flip |-> props.flip])]

\* The adapter after updatePosition() with the given handles.
updatePosition(tg, mn) ==
  IF tg = NULL \/ ~mn.present THEN popper
  ELSE [popper EXCEPT
          !.req = Some([element |-> mn, target |-> tg,
                        placement |-> state.placement, flip |-> props.flip])]

\* The arguments toggleOpen(event) passes to this.props.onToggle.
toggleOpen(event) ==
  [argc |-> 2, show |-> ~props.show, event |-> event, source |-> UNDEFINED]

\* this.handleClose: the class defines no such member.
handleClose == UNDEFINED


\* handleKeyDown with a preventDefault in the Escape/Tab case.
handleKeyDownTabPrevents(event) ==
  LET key == event.key
      target == event.target
      isInput == IsInput(target)
      base == [Quiet("keydown") EXCEPT !.event = event]
  IN  IF isInput /\ key # " " /\ key # "Escape" /\ ~menu.present
        THEN [base EXCEPT !.threw = TRUE]
      ELSE IF isInput /\ (key = " " \/ (key # "Escape" /\ Contains(menu, target)))
        THEN base
      ELSE IF key = "ArrowUp"
        THEN LET next == getNextFocusedChild(menu, target, -1)
             IN  [base EXCEPT
                    !.nav = [called |-> TRUE, offset |-> -1, result |-> next],
                    !.focused = IF next # NULL /\ HasFocus(next) THEN <<next>> ELSE <<>>,
                    !.prevented = TRUE]
      ELSE IF key = "ArrowDown"
        THEN IF ~props.show
               THEN [base EXCEPT !.prevented = TRUE,
                                 !.toggled = <<toggleOpen(event)>>]
               ELSE LET next == getNextFocusedChild(menu, target, 1)
                    IN  [base EXCEPT
                           !.prevented = TRUE,
                           !.nav = [called |-> TRUE, offset |-> 1, result |-> next],
                           !.focused =
                             IF next # NULL /\ HasFocus(next) THEN <<next>> ELSE <<>>]
      ELSE IF key \in {"Escape", "Tab"}
        THEN [base EXCEPT !.prevented = TRUE, !.threw = (handleClose = UNDEFINED)]
      ELSE base

\* What handleKeyDown does with the event: whether it called
\* preventDefault, its onToggle calls, its focus calls, whether it threw,
\* and the getNextFocusedChild call it made.
handleKeyDown(event) ==
  LET key == event.key
      target == event.target
      isInput == IsInput(target)
      base == [Quiet("keydown") EXCEPT !.event = event]
  IN  IF isInput /\ key # " " /\ key # "Escape" /\ ~menu.present
        THEN \* this.menu.contains with no menu registered: a TypeError
             [base EXCEPT !.threw = TRUE]
      ELSE IF isInput /\ (key = " " \/ (key # "Escape" /\ Contains(menu, target)))
        THEN base
      ELSE IF key = "ArrowUp"
        THEN LET next == getNextFocusedChild(menu, target, -1)
             IN  [base EXCEPT
                    !.nav = [called |-> TRUE, offset |-> -1, result |-> next],
                    !.focused = IF next # NULL /\ HasFocus(next) THEN <<next>> ELSE <<>>,
                    !.prevented = TRUE]
      ELSE IF key = "ArrowDown"
        THEN IF ~props.show
               THEN [base EXCEPT !.prevented = TRUE,
                                 !.toggled = <<toggleOpen(event)>>]
               ELSE LET next == getNextFocusedChild(menu, target, 1)
                    IN  [base EXCEPT
                           !.prevented = TRUE,
                           !.nav = [called |-> TRUE, offset |-> 1, result |-> next],
                           !.focused =
                             IF next # NULL /\ HasFocus(next) THEN <<next>> ELSE <<>>]
      ELSE IF key \in {"Escape", "Tab"}
        THEN \* this.handleClose(event) with handleClose undefined: a TypeError
             [base EXCEPT !.threw = (handleClose = UNDEFINED)]
      ELSE base

\* What handleClick does with the event.
handleClick(event) ==
  [Quiet("click") EXCEPT !.event = event, !.toggled = <<toggleOpen(event)>>]

\* The lifecycle's focus calls counted into the record of the last close.
Counted(rec, calls, tg) ==
  IF rec.phase = "none" THEN rec
  ELSE [rec EXCEPT
          !.phase = "done",
          !.toggleOk = IF rec.phase = "rendered"
                         THEN tg # NULL /\ HasFocus(tg) ELSE rec.toggleOk,
          !.toggleFocus =
            Min(2, rec.toggleFocus + Cardinality({i \in 1..Len(calls) : calls[i] = tg})),
          !.otherFocus =
            Min(2, rec.otherFocus + Cardinality({i \in 1..Len(calls) : calls[i] # tg}))]

\* ---------------------------------------------------------------- actions
\* The state after the constructor and the first render of a mount; the
\* commit of the mount (refs, then componentDidMount) is still to come.
InitWith(P) ==
  /\ props \in P
  /\ state = renderContext(getDerivedStateFromProps(props, ConstructorState))
  /\ toggle = NULL
  /\ menu = NoMenu
  /\ focusInDropdown = FALSE
  /\ activeElement = "body"
  /\ pc = "mount"
  /\ prevShow = props.show
  /\ pendingId = FALSE
  /\ popper = [req |-> None, destroyed |-> FALSE]
  /\ last = Quiet("constructor")
  /\ closeRec = NoClose

\* getDerivedStateFromProps and render for new props p over prevState; pop
\* is the adapter as the caller leaves it. A throwing render makes React
\* unmount the component (componentWillUnmount destroys the adapter).
RenderStep(p, prevState, pop, op) ==
  LET st == getDerivedStateFromProps(p, prevState)
  IN  /\ props' = p
      /\ prevShow' = props.show
      /\ IF renderThrows(st, p)
           THEN /\ state' = st
                /\ focusInDropdown' = focusInDropdown
                /\ pc' = "unmounted"
                /\ popper' = [pop EXCEPT !.destroyed = TRUE]
                /\ last' = [Quiet(op) EXCEPT !.threw = TRUE]
           ELSE /\ state' = renderContext(st)
                /\ focusInDropdown' = renderFocusFlag(st, p)
                /\ pc' = "commit"
                /\ popper' = pop
                /\ last' = Quiet(op)
      /\ closeRec' =
           IF p.show THEN NoClose
           ELSE IF props.show
             THEN [NoClose EXCEPT
                     !.phase = "rendered",
                     !.focusIn = menu.present /\ Contains(menu, activeElement)]
             ELSE closeRec

\* The host re-renders the Dropdown with props p.
ExternalUpdate(p) ==
  /\ pc = "idle" /\ ~pendingId
  /\ RenderStep(p, state, popper, "render")
  /\ UNCHANGED <<toggle, menu, activeElement, pendingId>>

\* React flushes the setState queued by setToggleElement.
StateRender ==
  /\ pc = "idle" /\ pendingId
  /\ RenderStep(props,
                [state EXCEPT !.dropdownContext.toggleId = IdOf(toggle)],
                popper, "render")
  /\ pendingId' = FALSE
  /\ UNCHANGED <<toggle, menu, activeElement>>

componentDidMount ==
  /\ pc = "mount"
  /\ popper' = IF props.show THEN updatePosition(toggle, menu) ELSE popper
  /\ pc' = "idle"
  /\ last' = Quiet("other")
  /\ UNCHANGED <<props, state, toggle, menu, focusInDropdown, activeElement,
                 prevShow, pendingId, closeRec>>

\* componentDidUpdate that returns focus without clearing the flag.
componentDidUpdateKeepsFlag ==
  /\ pc = "commit"
  /\ LET show == props.show
         prevOpen == prevShow
         opening == show /\ ~prevOpen
         returning == ~show /\ prevOpen /\ focusInDropdown
         calls == IF opening THEN maybeFocusFirst
                  ELSE IF returning THEN focus ELSE <<>>
     IN  /\ popper' = IF opening THEN updatePosition(toggle, menu) ELSE popper
         /\ focusInDropdown' = focusInDropdown
         /\ activeElement' = ActiveAfter(calls)
         /\ last' = [Quiet("didUpdate") EXCEPT !.focused = calls]
         /\ closeRec' = Counted(closeRec, calls, toggle)
  /\ pc' = "idle"
  /\ UNCHANGED <<props, state, toggle, menu, prevShow, pendingId>>

componentDidUpdate ==
  /\ pc = "commit"
  /\ LET show == props.show
         prevOpen == prevShow
         opening == show /\ ~prevOpen
         returning == ~show /\ prevOpen /\ focusInDropdown
         calls == IF opening THEN maybeFocusFirst
                  ELSE IF returning THEN focus ELSE <<>>
     IN  /\ popper' = IF opening THEN updatePosition(toggle, menu) ELSE popper
         /\ focusInDropdown' = IF returning THEN FALSE ELSE focusInDropdown
         /\ activeElement' = ActiveAfter(calls)
         /\ last' = [Quiet("didUpdate") EXCEPT !.focused = calls]
         /\ closeRec' = Counted(closeRec, calls, toggle)
  /\ pc' = "idle"
  /\ UNCHANGED <<props, state, toggle, menu, prevShow, pendingId>>

\* The ref callbacks run in a commit, or when a child mounts or unmounts
\* the node on its own.
RefsMayRun == pc \in {"mount", "commit"} \/ (pc = "idle" /\ ~pendingId)

setToggleElement(el) ==
  /\ RefsMayRun /\ ~pendingId
  /\ toggle' = el
  /\ pendingId' = (el # NULL)
  /\ popper' = IF props.show THEN updatePosition(el, menu) ELSE popper
  /\ last' = Quiet("other")
  /\ UNCHANGED <<props, state, menu, focusInDropdown, activeElement, pc,
                 prevShow, closeRec>>

\* Focus leaves a node that is taken out of the document.
setMenuElement(m) ==
  /\ RefsMayRun
  /\ menu' = m
  /\ activeElement' =
       IF activeElement \in Focusable(m) THEN activeElement ELSE "body"
  /\ popper' = IF props.show THEN updatePosition(toggle, m) ELSE popper
  /\ last' = Quiet("other")
  /\ UNCHANGED <<props, state, toggle, focusInDropdown, pc, prevShow,
                 pendingId, closeRec>>

\* The user moves focus.
UserFocus(el) ==
  /\ pc = "idle" /\ ~pendingId
  /\ el # activeElement
  /\ activeElement' = el
  /\ last' = Quiet("other")
  /\ UNCHANGED <<props, state, toggle, menu, focusInDropdown, pc, prevShow,
                 pendingId, popper, closeRec>>

\* A click on the toggle, which calls the context's onToggle.
Click ==
  /\ pc = "idle" /\ ~pendingId
  /\ last' = handleClick([type |-> "click", key |-> "none", target |-> "toggle"])
  /\ UNCHANGED <<props, state, toggle, menu, focusInDropdown, activeElement,
                 pc, prevShow, pendingId, popper, closeRec>>

\* A key goes down on the focused element of the dropdown.
KeyDown(key) ==
  /\ pc = "idle" /\ ~pendingId
  /\ activeElement \in Targets(menu)
  /\ LET out == handleKeyDown([type |-> "keydown", key |-> key,
                               target |-> activeElement])
     IN  /\ last' = out
         /\ activeElement' = ActiveAfter(out.focused)
  /\ UNCHANGED <<props, state, toggle, menu, focusInDropdown, pc, prevShow,
                 pendingId, popper, closeRec>>

\* The result the positioning engine computes for a request.
Flipped(placement) ==
  CASE placement = "top-start" -> "bottom-start"
    [] placement = "top-end" -> "bottom-end"
    [] placement = "bottom-start" -> "top-start"
    [] placement = "bottom-end" -> "top-end"
    [] placement = "left-start" -> "right-start"
    [] placement = "right-start" -> "left-start"
    [] OTHER -> placement

PositionResults(req) ==
  {req.placement} \cup (IF req.flip THEN {Flipped(req.placement)} ELSE {})

\* handleUpdate that drops the result it is given.
handleUpdateIgnoresResult(r) ==
  /\ pc \in {"idle", "unmounted"} /\ ~pendingId
  /\ popper.req # None
  /\ IF pc = "idle"
       THEN RenderStep(props, state, [popper EXCEPT !.req = None], "render")
       ELSE /\ popper' = [popper EXCEPT !.req = None]
            /\ UNCHANGED <<props, state, focusInDropdown, pc, prevShow, last,
                           closeRec>>
  /\ UNCHANGED <<toggle, menu, activeElement, pendingId>>

\* The adapter delivers the result of the request it holds to handleUpdate,
\* whose setState renders at once; React drops the setState of an unmounted
\* component.
handleUpdate(r) ==
  /\ pc \in {"idle", "unmounted"} /\ ~pendingId
  /\ popper.req # None
  /\ IF pc = "idle"
       THEN RenderStep(props, [state EXCEPT !.popper = r],
                       [popper EXCEPT !.req = None], "render")
       ELSE /\ popper' = [popper EXCEPT !.req = None]
            /\ UNCHANGED <<props, state, focusInDropdown, pc, prevShow, last,
                           closeRec>>
  /\ UNCHANGED <<toggle, menu, activeElement, pendingId>>

\* componentWillUnmount that leaves the adapter alone.
componentWillUnmountNoDestroy ==
  /\ pc = "idle" /\ ~pendingId
  /\ pc' = "unmounted"
  /\ last' = Quiet("other")
  /\ UNCHANGED <<props, state, toggle, menu, focusInDropdown, activeElement,
                 prevShow, pendingId, popper, closeRec>>

componentWillUnmount ==
  /\ pc = "idle" /\ ~pendingId
  /\ pc' = "unmounted"
  /\ popper' = [popper EXCEPT !.destroyed = TRUE]
  /\ last' = Quiet("other")
  /\ UNCHANGED <<props, state, toggle, menu, focusInDropdown, activeElement,
                 prevShow, pendingId, closeRec>>

Init == InitWith(SomeProps)

\* The results the adapter may deliver now: those of the request it holds,
\* none once it is destroyed.
Deliverable ==
  IF popper.req = None \/ popper.destroyed THEN {}
  ELSE PositionResults(popper.req[1])

\* The mounted life of one Dropdown under one configuration.
Next ==
  \/ \E p \in SomeProps : ExternalUpdate(p)
  \/ StateRender
  \/ componentDidMount
  \/ componentDidUpdate
  \/ \E el \in SomeToggles \cup {NULL} : setToggleElement(el)
  \/ \E m \in SomeMenus \cup {NoMenu} : setMenuElement(m)
  \/ \E el \in Focusable(menu) : UserFocus(el)
  \/ Click
  \/ \E k \in Keys : KeyDown(k)
  \/ \E r \in Deliverable : handleUpdate(r)

Spec == Init /\ [][Next]_vars


\* Every direction, alignment and open flag over a small DOM: the runs for
\* placement.
ConfigProps == { p \in AllProps : ~p.flip }
ConfigMenus == { m \in MenuNodes : m.role /\ m.n = 1 }

InitConfig == InitWith(ConfigProps)

NextConfig ==
  \/ \E p \in ConfigProps : ExternalUpdate(p)
  \/ StateRender
  \/ componentDidMount
  \/ componentDidUpdate
  \/ \E el \in ToggleNodes \cup {NULL} : setToggleElement(el)
  \/ \E m \in ConfigMenus \cup {NoMenu} : setMenuElement(m)

SpecConfig == InitConfig /\ [][NextConfig]_vars


\* The life of one Dropdown up to and past its unmounting, with the adapter
\* delivering results: the runs for teardown.
NextTeardown ==
  \/ \E p \in SomeProps : ExternalUpdate(p)
  \/ StateRender
  \/ componentDidMount
  \/ componentDidUpdate
  \/ \E el \in SomeToggles \cup {NULL} : setToggleElement(el)
  \/ \E m \in SomeMenus \cup {NoMenu} : setMenuElement(m)
  \/ \E r \in Deliverable : handleUpdate(r)
  \/ componentWillUnmount

SpecTeardown == Init /\ [][NextTeardown]_vars

\* ------------------------------------------------------------------ claims
\* The placement table of the specification.
PlacementTable(direction, alignEnd) ==
  CASE direction = "up" /\ ~alignEnd -> "top-start"
    [] direction = "up" /\ alignEnd -> "top-end"
    [] direction = "right" -> "right-start"
    [] direction = "left" -> "left-start"
    [] OTHER -> IF alignEnd THEN "bottom-end" ELSE "bottom-start"

\* C1: in every state, whatever the open flag and whatever updates came
\* before, the stored placement is the table's value for the direction and
\* alignment of the newest props: up gives top-start or top-end, right gives
\* right-start, left gives left-start, and down, an absent or an
\* unrecognized direction gives bottom-start or bottom-end.
C1_PlacementIsTable ==
  state.placement = PlacementTable(props.drop, props.alignRight)

\* C1 witness: an external update to up/end has been rendered while closed
\* and the placement is top-end.
C1_Witness ==
  /\ pc = "commit" /\ last.op = "render"
  /\ props.drop = "up" /\ props.alignRight /\ ~props.show
  /\ state.placement = "top-end"


\* C2: in every state the open flag handed to the rendering layer is the
\* show value of the newest props; clicks, keydowns, position callbacks and
\* element registrations leave it alone.
C2_OpenFlagIsExternal == state.dropdownContext.show = Some(props.show)

\* C2 witness: a click has asked to open (onToggle called with true) and
\* the exposed flag is still false.
C2_Witness ==
  /\ last.op = "click"
  /\ Len(last.toggled) = 1 /\ last.toggled[1].show
  /\ state.dropdownContext.show = Some(FALSE)

\* The source tags the documentation of onToggle lists.
SourceTags == {"click", "keydown", "rootClose", "select"}

\* C3: every toggle request of a click or a keydown calls onToggle exactly
\* once with three arguments: the negation of the open flag, the event, and
\* a source tag naming what triggered it.
C3_ToggleCallHasSource ==
  (last.op \in {"click", "keydown"} /\ last.toggled # <<>>) =>
    /\ Len(last.toggled) = 1
    /\ last.toggled[1].argc = 3
    /\ last.toggled[1].show = ~props.show
    /\ last.toggled[1].event = last.event
    /\ last.toggled[1].source \in SourceTags
    /\ last.toggled[1].source = last.op


\* C4: once the handler of an open-to-closed update has run, and for as
\* long as the dropdown stays closed, the lifecycle has focused the toggle
\* exactly once if focus was inside the menu when the closing update was
\* rendered (and the toggle was registered with a focus method when the
\* handler ran), never if focus was outside the menu, and it has focused
\* nothing else.
C4_FocusReturnedOnce ==
  closeRec.phase = "done" =>
    /\ closeRec.otherFocus = 0
    /\ closeRec.toggleFocus =
         (IF closeRec.focusIn /\ closeRec.toggleOk THEN 1 ELSE 0)

\* C4 witness: a closing update was rendered with focus inside the menu and
\* its handler has just moved focus to the toggle.
C4_Witness ==
  /\ closeRec.phase = "done" /\ closeRec.focusIn /\ closeRec.toggleOk
  /\ ~props.show /\ prevShow
  /\ last.op = "didUpdate" /\ last.focused = <<"toggle">>
  /\ activeElement = "toggle"

\* The handler of a closed-to-open update has just run.
OpenTransitionHandled == last.op = "didUpdate" /\ props.show /\ ~prevShow

\* C5: after the handler of a closed-to-open update, if the registered menu
\* has the menu role and at least one item, the first item was focused and
\* holds focus; if the menu lacks the role or is not registered, the
\* handler focused nothing.
C5_OpenFocusesFirst ==
  OpenTransitionHandled =>
    /\ (menu.present /\ menu.role /\ menu.n >= 1) =>
         (last.focused = <<ItemNames[1]>> /\ activeElement = ItemNames[1])
    /\ (~menu.present \/ ~menu.role) => last.focused = <<>>

\* C5 witness: an opening update over a role=menu menu of two or more items
\* has focused the first item.
C5_Witness ==
  /\ OpenTransitionHandled
  /\ menu.present /\ menu.role /\ menu.n >= 2
  /\ last.focused = <<"A">> /\ activeElement = "A"

\* The last handler was a keydown that the specification's text-input guard
\* does not ignore: its target is no text input, or the key is not a space
\* and either the key is Escape or the target lies in no registered menu.
KeyDispatched ==
  /\ last.op = "keydown"
  /\ ~(/\ last.event.target \in {"menuInput", "outInput"}
       /\ \/ last.event.key = " "
          \/ /\ last.event.key # "Escape"
             /\ menu.present
             /\ last.event.target = "menuInput")

\* C6: an Escape or Tab keydown that the text-input guard does not ignore
\* completes without an error and calls onToggle with the value false and
\* the source tag "keydown".
C6_EscapeTabRequestClose ==
  (KeyDispatched /\ last.event.key \in {"Escape", "Tab"}) =>
    /\ ~last.threw
    /\ Len(last.toggled) = 1
    /\ ~last.toggled[1].show
    /\ last.toggled[1].source = "keydown"

\* C7: ArrowDown while closed calls onToggle exactly once with the value
\* true and the source tag "keydown", suppresses the default action and
\* focuses nothing. (Stated for the keydowns whose guard completes: a text
\* input as target with no menu registered is the case of C11.)
C7_ArrowDownClosedRequestsOpen ==
  (KeyDispatched /\ last.event.key = "ArrowDown" /\ ~props.show
     /\ ~(last.event.target = "outInput" /\ ~menu.present)) =>
    /\ Len(last.toggled) = 1
    /\ last.toggled[1].show
    /\ last.toggled[1].source = "keydown"
    /\ last.prevented
    /\ last.focused = <<>>

\* The place of the event target among the items of the registered menu,
\* counted from 0; -1 when it is no item or no menu is registered.
TargetIndex ==
  IF menu.present /\ \E j \in 1..menu.n : ItemNames[j] = last.event.target
    THEN (CHOOSE j \in 1..menu.n : ItemNames[j] = last.event.target) - 1
    ELSE -1

\* C8: ArrowDown while open never calls onToggle, always suppresses the
\* default action, and focuses the item after the event target; from the
\* last item nothing is focused and focus stays where it is. (Stated for
\* the keydowns the text-input guard does not ignore, as the dispatch order
\* of the specification has it.)
C8_ArrowDownOpenMovesNext ==
  (KeyDispatched /\ last.event.key = "ArrowDown" /\ props.show) =>
    /\ last.toggled = <<>>
    /\ last.prevented
    /\ (TargetIndex >= 0 /\ TargetIndex < menu.n - 1) =>
         /\ last.focused = <<ItemNames[TargetIndex + 2]>>
         /\ activeElement = ItemNames[TargetIndex + 2]
    /\ (TargetIndex >= 0 /\ TargetIndex = menu.n - 1) =>
         /\ last.focused = <<>>
         /\ activeElement = last.event.target

\* C9: an ArrowUp that the text-input guard does not ignore always
\* suppresses the default action, never calls onToggle, and focuses the
\* item before the event target, the first item when the target is the
\* first item or no item; with no menu registered or no items it focuses
\* nothing.
C9_ArrowUpMovesPrevious ==
  (KeyDispatched /\ last.event.key = "ArrowUp") =>
    /\ last.prevented
    /\ last.toggled = <<>>
    /\ (menu.present /\ menu.n >= 1) =>
         LET k == IF TargetIndex >= 1 THEN TargetIndex - 1 ELSE 0
         IN  last.focused = <<ItemNames[k + 1]>> /\ activeElement = ItemNames[k + 1]
    /\ (~menu.present \/ menu.n = 0) =>
         /\ last.focused = <<>>
         /\ activeElement = last.event.target

\* C10: every call of getNextFocusedChild returns the item at index
\* clamp(indexOf(current) + offset, 0, N) of the N items, and no item when
\* that index is N or when no menu is registered: from index N-1 with
\* offset +1 it returns none, from index 0 with offset -1 the item at 0.
C10_NextItemClamp ==
  last.nav.called =>
    LET N == menu.n
        raw == TargetIndex + last.nav.offset
        k == IF raw < 0 THEN 0 ELSE IF raw > N THEN N ELSE raw
    IN  /\ last.nav.offset \in {-1, 1}
        /\ last.nav.result =
             (IF ~menu.present \/ k = N THEN NULL ELSE ItemNames[k + 1])

\* C10 witness: offset +1 from the last of two or more items returned none,
\* where clamping to N-1 would have returned the last item.
C10_Witness ==
  /\ last.nav.called /\ last.nav.offset = 1
  /\ menu.present /\ menu.n >= 2
  /\ last.event.target = ItemNames[menu.n]
  /\ last.nav.result = NULL


\* C11: no operation raises an error because the menu or the toggle is not
\* registered: a render or a keydown handled with no menu registered
\* completes without throwing. (Escape and Tab are left out: their error is
\* the one of C6, whatever is registered.)
C11_NoThrowForMissingElement ==
  (/\ last.op \in {"render", "keydown"}
   /\ ~menu.present
   /\ ~(last.op = "keydown" /\ last.event.key \in {"Escape", "Tab"})) =>
    ~last.threw

\* The keydown handled last had a text input as its target.
KeyOnInput == last.op = "keydown" /\ IsInput(last.event.target)

\* C12: a keydown on a text input is ignored (no onToggle call, no focus
\* move, default not prevented, no error) exactly when the key is a space,
\* or the key is not Escape and the target is inside the menu; any other
\* keydown on a text input goes through the key table: the arrow keys
\* prevent the default and navigate or request the opening, a key outside
\* the table does nothing. (What the table does for Escape and Tab is C6.)
C12_InputGuard ==
  KeyOnInput =>
    IF ~KeyDispatched
      THEN /\ last.toggled = <<>> /\ last.focused = <<>>
           /\ ~last.prevented /\ ~last.threw
    ELSE IF last.event.key \in {"ArrowUp", "ArrowDown"}
      THEN /\ ~last.threw /\ last.prevented
           /\ (last.nav.called \/ last.toggled # <<>>)
    ELSE IF last.event.key \in {"Escape", "Tab"} THEN TRUE
    ELSE /\ ~last.threw /\ ~last.prevented
         /\ last.toggled = <<>> /\ last.focused = <<>>

\* C13: handling a Tab keydown never prevents the event's default action,
\* whatever the state: open or closed, menu registered or not, whatever
\* the target.
C13_TabKeepsDefault ==
  (last.op = "keydown" /\ last.event.key = "Tab") => ~last.prevented

\* A Tab keydown on the toggle of an open dropdown with its menu mounted
\* has been handled and the default was left alone.
C13_Witness ==
  /\ last.op = "keydown" /\ last.event.key = "Tab"
  /\ last.event.target = "toggle"
  /\ props.show /\ menu.present /\ pc = "idle"
  /\ ~last.prevented

\* The dropdown is at rest, open, with both handles registered.
OpenAndRegistered ==
  /\ pc = "idle" /\ ~pendingId
  /\ props.show /\ toggle # NULL /\ menu.present

\* C14: whenever the dropdown is open with the toggle and the menu
\* registered, once the update or the registration has completed the
\* adapter has been asked to recompute for the current configuration: the
\* most recent request carries the placement derived from the current
\* drop and alignRight, also after an update that changed only those.
C14_RequestFollowsConfig ==
  OpenAndRegistered =>
    /\ popper.req # None
    /\ popper.req[1].placement = PlacementTable(props.drop, props.alignRight)

\* C15: from the render of an open-to-closed update until that update's
\* componentDidUpdate, the flag holds the snapshot taken in that render
\* against the menu as it was registered then, whatever the commit in
\* between does to the menu (removing it, which also takes focus away from
\* its contents): the snapshot is taken before the removal and before the
\* handler that reads it.
C15_SnapshotBeforeRemoval ==
  closeRec.phase = "rendered" => focusInDropdown = closeRec.focusIn

\* A closing update was rendered with focus inside the menu, its commit
\* has removed the menu (focus fell back to the body), its handler has not
\* run yet, and the flag still says that focus was inside.
C15_Witness ==
  /\ closeRec.phase = "rendered" /\ closeRec.focusIn
  /\ pc = "commit" /\ ~props.show /\ prevShow
  /\ ~menu.present /\ activeElement = "body"
  /\ focusInDropdown

\* C16: the adapter never receives a request while a handle is
\* unregistered: every request it holds carries a menu element and a
\* toggle target, and no step that leaves the toggle or the menu
\* unregistered issues a request (the adapter keeps the request it had, or
\* has delivered it).
C16_NoRequestWithoutHandles ==
  [][/\ popper'.req # None =>
          /\ popper'.req[1].element.present
          /\ popper'.req[1].target # NULL
     /\ (toggle' = NULL \/ ~menu'.present) =>
          (popper'.req = popper.req \/ popper'.req = None)]_vars

\* The handler of a closed-to-open update has run updatePosition with the
\* menu registered and no toggle, and the adapter holds no request.
C16_Witness ==
  /\ OpenTransitionHandled
  /\ toggle = NULL /\ menu.present
  /\ popper.req = None /\ ~popper.destroyed

\* The result the last callback of the adapter stored.
Stored(r) == state.popper = r /\ state.dropdownContext.popper = r

\* C17: a callback of the adapter stores its result, unchanged, as
\* state.popper and hands it down in the context, and changes nothing
\* else: props.show, the placement, the focus flag, the handles and the
\* focused element stay as they were; a step that is no callback leaves
\* the stored result in place.
C17_CallbackOnlyStoresResult ==
  [][/\ \A r \in Deliverable :
          handleUpdate(r) =>
            /\ state'.popper = r
            /\ state'.dropdownContext.popper = r
            /\ state'.placement = state.placement
            /\ state'.dropdownContext.show = state.dropdownContext.show
            /\ props' = props
            /\ focusInDropdown' = focusInDropdown
            /\ toggle' = toggle /\ menu' = menu
            /\ activeElement' = activeElement
     /\ ~(\E r \in Deliverable : handleUpdate(r)) =>
          state'.popper = state.popper]_vars

\* The adapter has delivered the flipped placement of a request and the
\* render that followed handed it down; the dropdown is still open.
C17_Witness ==
  /\ pc = "commit" /\ last.op = "render" /\ popper.req = None
  /\ props.show /\ toggle # NULL /\ menu.present
  /\ Stored(Flipped(state.placement))
  /\ Flipped(state.placement) # state.placement

\* C19: once the controller is torn down, no callback of the adapter
\* changes it: the adapter delivers nothing any more, also not the result
\* of a request it received before the teardown, and state, focus flag
\* and handles stay as the teardown left them.
C19_NoCallbackAfterTeardown ==
  [][pc = "unmounted" =>
       UNCHANGED <<props, state, focusInDropdown, toggle, menu, popper>>]_vars

\* The controller was unmounted while the adapter still owed the callback
\* of a request, and the adapter is destroyed.
C19_Witness ==
  /\ pc = "unmounted" /\ ~last.threw
  /\ popper.destroyed /\ popper.req # None

\* The item at index clamp(i + offset, 0, N) of the registered menu's N
\* items, none at index N.
ItemFrom(i, offset) ==
  LET N == menu.n
      raw == i + offset
      k == IF raw < 0 THEN 0 ELSE IF raw > N THEN N ELSE raw
  IN  IF ~menu.present \/ k = N THEN NULL ELSE ItemNames[k + 1]

\* The last keydown navigated from a target that is not a menu item.
NavFromOutside == last.nav.called /\ TargetIndex = -1

\* C18 as stated: when the current element is not among the items,
\* getNextFocusedChild returns what it returns for a current element at
\* index 0, for every menu and offset.
C18_AbsentActsAsIndexZero ==
  NavFromOutside => last.nav.result = ItemFrom(0, last.nav.offset)

\* C18 amended: when the current element is not among the items,
\* getNextFocusedChild returns the first item for offset +1 and for offset
\* -1 alike, and none when the menu has no items or is not registered.
C18_AbsentYieldsFirstItem ==
  NavFromOutside =>
    last.nav.result =
      (IF menu.present /\ menu.n >= 1 THEN ItemNames[1] ELSE NULL)

\* ArrowDown on the toggle of an open dropdown with two or more items
\* returned the first item, where a current index of 0 gives the second.
C18_Witness ==
  /\ NavFromOutside /\ last.nav.offset = 1
  /\ last.event.target = "toggle"
  /\ menu.present /\ menu.n >= 2
  /\ last.nav.result = ItemNames[1]
  /\ ItemFrom(0, 1) = ItemNames[2]

\* C20: the focus flag is false after construction and after every
\* completed update (render, commit and componentDidUpdate), whatever the
\* sequence of external updates and state-only renders; it is true only
\* between the render of an open-to-closed update and the
\* componentDidUpdate of that same update.
C20_FlagOnlyDuringClose ==
  /\ pc \in {"mount", "idle"} => ~focusInDropdown
  /\ focusInDropdown =>
       /\ pc = "commit" /\ ~props.show /\ prevShow
       /\ closeRec.phase = "rendered"

\* The handler of a closing update that was rendered with focus inside the
\* menu has run, and the flag is false again.
C20_Witness ==
  /\ pc = "idle" /\ last.op = "didUpdate"
  /\ ~props.show /\ prevShow
  /\ closeRec.phase = "done" /\ closeRec.focusIn
  /\ ~focusInDropdown

====
